---- MODULE Spec2Model ----
(***************************************************************************)
(* A model of the osm-parser crate: the data model and its derived         *)
(* computations (bounds, center, tag merge), the ingestion of the          *)
(* elements array, and the projection transform.                           *)
(*                                                                         *)
(* The crate's sources hold two generations of the data model:             *)
(*   types.rs   (f64; Bounds::calculate, OsmData::calculate_bounds,        *)
(*               TryFrom<RawOsmData>, merge_tags)                          *)
(*   structs.rs (f32; Bounds::compute, OsmData::compute_bounds,            *)
(*               project_to) and parser.rs (parse)                         *)
(* Both are modelled, each under the name it has in its file.              *)
(*                                                                         *)
(* Every operation is a call on a receiver.  The state is                  *)
(*   self  the receiver (an OsmData, a Tags map, a Coordinate, a Node),    *)
(*   orig  the receiver as first constructed,                              *)
(*   pre   the receiver as it was when the last call was made,             *)
(*   call  the last call: its name and its arguments,                      *)
(*   ret   what the last call returned,                                    *)
(*   log   the calls made so far (kept by the projection specification).   *)
(***************************************************************************)
EXTENDS Integers, Sequences, FiniteSets

VARIABLES self, orig, pre, call, ret, log

vars == <<self, orig, pre, call, ret, log>>

NoCall == [op |-> "none"]
NoRet == [tag |-> "none"]

(***************************************************************************)
(* Bounds of the model.                                                    *)
(***************************************************************************)
MaxNodes == 2

Ids == 1..MaxNodes

Range(f) == {f[x] : x \in DOMAIN f}

(***************************************************************************)
(* Coordinate, Bounds (types.rs, structs.rs).                              *)
(* In the bounds specification a float is an integer number of degrees;    *)
(* the infinities are two values beyond every coordinate the model uses,   *)
(* so that min and max order them as IEEE does.  The input latitudes and   *)
(* longitudes are even, so that the division by 2.0 in center() is exact   *)
(* in the integers as it is in floating point.                             *)
(***************************************************************************)
Lats == {-100, -40, 60, 100}
Lons == {-200, -20, 80, 200}

F_INFINITY == 1000000
F_NEG_INFINITY == -F_INFINITY

Coordinate_new(lat, lon) == [lat |-> lat, lon |-> lon]

Coordinate_ZERO == Coordinate_new(0, 0)
Coordinate_MIN == Coordinate_new(-90, -180)
Coordinate_MAX == Coordinate_new(90, 180)
Coordinate_INF == Coordinate_new(F_INFINITY, F_INFINITY)
Coordinate_NEG_INF == Coordinate_new(F_NEG_INFINITY, F_NEG_INFINITY)

Bounds_new(min, max) == [min |-> min, max |-> max]

Bounds_ZERO == Bounds_new(Coordinate_ZERO, Coordinate_ZERO)
Bounds_FULL == Bounds_new(Coordinate_MIN, Coordinate_MAX)

\* #[derive(Default)] on Bounds and Coordinate: every float 0.0
Bounds_default == Bounds_new(Coordinate_new(0, 0), Coordinate_new(0, 0))

\* f64::min / f32::min, f64::max / f32::max on non-NaN operands
float_min(a, b) == IF b < a THEN b ELSE a
float_max(a, b) == IF b > a THEN b ELSE a

\* One iteration of the loop body of Bounds::calculate
calculate_step(acc, node) ==
    [min |-> [lat |-> float_min(acc.min.lat, node.pos.lat),
              lon |-> float_min(acc.min.lon, node.pos.lon)],
     max |-> [lat |-> float_max(acc.max.lat, node.pos.lat),
              lon |-> float_max(acc.max.lon, node.pos.lon)]]

\* `for node in nodes.values() { ... }`: the loop over the mapping's values,
\* in the order the hash map yields them (any order: the choice of k)
RECURSIVE for_node_in_values(_, _)
for_node_in_values(acc, nodes) ==
    IF DOMAIN nodes = {} THEN acc
    ELSE LET k == CHOOSE k \in DOMAIN nodes : TRUE
             rest == [j \in DOMAIN nodes \ {k} |-> nodes[j]]
         IN  for_node_in_values(calculate_step(acc, nodes[k]), rest)

\* Bounds::calculate without its guard for the empty mapping
Bounds_calculate_unguarded(nodes) ==
    for_node_in_values(Bounds_new(Coordinate_INF, Coordinate_NEG_INF), nodes)

Bounds_calculate(nodes) ==
    IF DOMAIN nodes = {} THEN Bounds_ZERO
    ELSE for_node_in_values(Bounds_new(Coordinate_INF, Coordinate_NEG_INF), nodes)

Bounds_compute(nodes) ==
    IF DOMAIN nodes = {} THEN Bounds_ZERO
    ELSE for_node_in_values(Bounds_new(Coordinate_MAX, Coordinate_MIN), nodes)

Bounds_center(b) ==
    [lat |-> (b.min.lat + b.max.lat) \div 2,
     lon |-> (b.min.lon + b.max.lon) \div 2]

Bounds_center_structs(b) ==
    [lat |-> b.min.lat + (b.max.lat - b.min.lat),
     lon |-> b.min.lon + (b.max.lon - b.min.lon)]

(***************************************************************************)
(* Node and OsmData.                                                       *)
(***************************************************************************)
Node_default ==
    [id |-> 0, pos |-> Coordinate_ZERO, timestamp |-> "", version |-> 0,
     changeset |-> 0, user |-> "", tags |-> <<>>]

\* Node::with_coordinate (types.rs), Node::from_coordinate (structs.rs)
Node_with_coordinate(coord) == [Node_default EXCEPT !.pos = coord]

OsmData_new(bounds, nodes, ways) ==
    [version |-> "0.6", generator |-> "g", copyright |-> "c",
     attribution |-> "a", license |-> "l",
     bounds |-> bounds, nodes |-> nodes, ways |-> ways]

OsmData_calculate_bounds(osm) ==
    [osm EXCEPT !.bounds = Bounds_calculate(osm.nodes)]

OsmData_compute_bounds(osm) ==
    LET s1 == IF DOMAIN osm.nodes = {}
              THEN [osm EXCEPT !.bounds = Bounds_default]
              ELSE osm
    IN  [s1 EXCEPT !.bounds = Bounds_compute(s1.nodes)]

(***************************************************************************)
(* The bounds specification: an OsmData whose node mapping holds any       *)
(* nodes at coordinates inside and outside the geographic ranges, and      *)
(* whose bounds field holds what the source declared.                      *)
(***************************************************************************)
BoundsCoords == {Coordinate_new(lat, lon) : lat \in Lats, lon \in Lons}

NodeMaps ==
    UNION {[S -> {Node_with_coordinate(c) : c \in BoundsCoords}] : S \in SUBSET Ids}

DeclaredBounds ==
    {Bounds_ZERO, Bounds_FULL,
     Bounds_new(Coordinate_new(-40, -20), Coordinate_new(60, 80))}

InitBounds ==
    /\ self \in {OsmData_new(b, n, <<>>) : b \in DeclaredBounds, n \in NodeMaps}
    /\ orig = self
    /\ pre = self
    /\ call = NoCall
    /\ ret = NoRet
    /\ log = <<>>

Do(op, arg, after, result) ==
    /\ pre' = self
    /\ call' = [op |-> op, arg |-> arg]
    /\ self' = after
    /\ ret' = result
    /\ UNCHANGED <<orig, log>>

CallCalculateBounds ==
    Do("OsmData::calculate_bounds", <<>>, OsmData_calculate_bounds(self), NoRet)

CallComputeBounds ==
    Do("OsmData::compute_bounds", <<>>, OsmData_compute_bounds(self), NoRet)

CallBoundsCalculate ==
    Do("Bounds::calculate", self.nodes, self,
       [tag |-> "Bounds", val |-> Bounds_calculate(self.nodes)])

CallBoundsCompute ==
    Do("Bounds::compute", self.nodes, self,
       [tag |-> "Bounds", val |-> Bounds_compute(self.nodes)])

CallCenter ==
    Do("Bounds::center", self.bounds, self,
       [tag |-> "Coordinate", val |-> Bounds_center(self.bounds)])

CallCenterStructs ==
    Do("structs::Bounds::center", self.bounds, self,
       [tag |-> "Coordinate", val |-> Bounds_center_structs(self.bounds)])

NextBounds ==
    \/ CallCalculateBounds
    \/ CallComputeBounds
    \/ CallBoundsCalculate
    \/ CallBoundsCompute
    \/ CallCenter
    \/ CallCenterStructs

SpecBounds == InitBounds /\ [][NextBounds]_vars

(***************************************************************************)
(* Claims on the bounds computation.                                       *)
(***************************************************************************)
BoundsOps ==
    {"OsmData::calculate_bounds", "OsmData::compute_bounds",
     "Bounds::calculate", "Bounds::compute"}

\* The rectangle the last bounds call produced: stored in the bounds field
\* by the OsmData methods, returned by the Bounds functions
ProducedBounds ==
    IF call.op \in {"OsmData::calculate_bounds", "OsmData::compute_bounds"}
    THEN self.bounds
    ELSE ret.val

Encloses(b, nodes) ==
    \A n \in Range(nodes) :
        /\ b.min.lat <= n.pos.lat /\ n.pos.lat <= b.max.lat
        /\ b.min.lon <= n.pos.lon /\ n.pos.lon <= b.max.lon

Touches(b, nodes) ==
    /\ \E n \in Range(nodes) : n.pos.lat = b.min.lat
    /\ \E n \in Range(nodes) : n.pos.lon = b.min.lon
    /\ \E n \in Range(nodes) : n.pos.lat = b.max.lat
    /\ \E n \in Range(nodes) : n.pos.lon = b.max.lon

\* C1: for every non-empty node mapping with finite coordinates, in or out
\* of the geographic ranges, each of the four bounds calculations yields a
\* rectangle that encloses every node and whose four components are each
\* the coordinate of some node.
C1_BoundsTight ==
    (call.op \in BoundsOps /\ DOMAIN pre.nodes # {}) =>
        /\ Encloses(ProducedBounds, pre.nodes)
        /\ Touches(ProducedBounds, pre.nodes)

\* C2: on an empty node mapping each bounds calculation yields the zero
\* bounds, never the accumulator seed, and the OsmData methods leave the
\* bounds field at the zero bounds whatever it held.
C2_EmptyIsZero ==
    (call.op \in BoundsOps /\ DOMAIN pre.nodes = {}) =>
        /\ ProducedBounds = Bounds_ZERO
        /\ ProducedBounds # Bounds_new(Coordinate_INF, Coordinate_NEG_INF)
        /\ ProducedBounds # Bounds_new(Coordinate_MAX, Coordinate_MIN)

C2_Witness ==
    /\ call.op = "OsmData::calculate_bounds"
    /\ DOMAIN pre.nodes = {}
    /\ pre.bounds = Bounds_FULL
    /\ self.bounds = Bounds_ZERO

CenterOps == {"Bounds::center", "structs::Bounds::center"}

StrictlyBetween(x, a, b) == (a < x /\ x < b) \/ (b < x /\ x < a)

\* C10: center() returns the per-axis arithmetic midpoint of the two
\* corners, strictly between them on an axis where they differ, and leaves
\* the bounds as they were.
C10_CenterIsMidpoint ==
    call.op \in CenterOps =>
        LET b == call.arg
            c == ret.val
        IN  /\ 2 * c.lat = b.min.lat + b.max.lat
            /\ 2 * c.lon = b.min.lon + b.max.lon
            /\ (b.min.lat # b.max.lat => StrictlyBetween(c.lat, b.min.lat, b.max.lat))
            /\ (b.min.lon # b.max.lon => StrictlyBetween(c.lon, b.min.lon, b.max.lon))
            /\ self = pre

(***************************************************************************)
(* Tags and merge_tags (types.rs).  A HashMap is a function from the keys  *)
(* it holds to their values.                                               *)
(***************************************************************************)
\* HashMap::insert under a policy that keeps an entry already present
HashMap_insert_keep(m, k, v) ==
    [x \in DOMAIN m \cup {k} |-> IF x \in DOMAIN m THEN m[x] ELSE v]

\* HashMap::insert: the value of an entry already present is replaced
HashMap_insert(m, k, v) ==
    [x \in DOMAIN m \cup {k} |-> IF x = k THEN v ELSE m[x]]

\* Extend::extend for a HashMap: insert every entry of `from`
RECURSIVE HashMap_extend(_, _)
HashMap_extend(to, from) ==
    IF DOMAIN from = {} THEN to
    ELSE LET k == CHOOSE k \in DOMAIN from : TRUE
         IN  HashMap_extend(HashMap_insert(to, k, from[k]),
                            [j \in DOMAIN from \ {k} |-> from[j]])

merge_tags(to, from) == HashMap_extend(to, from)

TagKeys == {"highway", "name", "surface"}
TagVals == {"2", "3"}

TagMaps == UNION {[S -> TagVals] : S \in SUBSET TagKeys}

InitTags ==
    /\ self \in TagMaps
    /\ orig = self
    /\ pre = self
    /\ call = NoCall
    /\ ret = NoRet
    /\ log = <<>>

CallMergeTags ==
    \E from \in TagMaps : Do("merge_tags", from, merge_tags(self, from), NoRet)

NextTags == CallMergeTags

SpecTags == InitTags /\ [][NextTags]_vars

\* C5: after merge_tags(to, from) every key of `from` maps to from's value,
\* also when `to` held it with another value; a key only in the old `to`
\* keeps its value; no other key is present; an empty `from` changes
\* nothing.
C5_MergeTags ==
    call.op = "merge_tags" =>
        LET from == call.arg
        IN  /\ \A k \in DOMAIN from : k \in DOMAIN self /\ self[k] = from[k]
            /\ \A k \in DOMAIN pre \ DOMAIN from :
                   k \in DOMAIN self /\ self[k] = pre[k]
            /\ DOMAIN self = DOMAIN pre \cup DOMAIN from
            /\ (DOMAIN from = {} => self = pre)

C5_Witness ==
    /\ call.op = "merge_tags"
    /\ \E k \in DOMAIN pre \cap DOMAIN call.arg :
           pre[k] # call.arg[k] /\ self[k] = call.arg[k]
    /\ \E k \in DOMAIN pre \ DOMAIN call.arg : self[k] = pre[k]
    /\ \E k \in DOMAIN call.arg \ DOMAIN pre : self[k] = call.arg[k]

(***************************************************************************)
(* Ingestion: TryFrom<RawOsmData> for OsmData (types.rs) and parse         *)
(* (parser.rs).  An element is a serde_json::Value: here a JSON object, a  *)
(* function from the keys it holds to JSON values, each tagged with its    *)
(* JSON type.                                                              *)
(***************************************************************************)
MaxElements == 3

J_null == [json |-> "null"]
J_str(s) == [json |-> "string", str |-> s]
J_num(n) == [json |-> "number", num |-> n]
J_arr(a) == [json |-> "array", arr |-> a]
J_obj(o) == [json |-> "object", obj |-> o]

\* serde_json's Index<&str> for Value: Null for a key the object lacks
Value_index(e, key) == IF key \in DOMAIN e THEN e[key] ELSE J_null

Some(x) == [some |-> TRUE, v |-> x]
None == [some |-> FALSE]

\* Value::as_str
Value_as_str(j) == IF j.json = "string" THEN Some(j.str) ELSE None

Ok(x) == [tag |-> "Ok", val |-> x]
Err(msg) == [tag |-> "Err", err |-> msg]

\* The fields serde's derived Deserialize requires, with the JSON type of
\* each; `tags` is optional in every schema (#[serde(default)], Option)
RawNode_schema ==
    [id |-> "number", lat |-> "number", lon |-> "number",
     timestamp |-> "string", version |-> "number", changeset |-> "number",
     user |-> "string"]

Way_schema ==
    [id |-> "number", timestamp |-> "string", version |-> "number",
     changeset |-> "number", user |-> "string", nodes |-> "array"]

\* Whether the derived Deserialize accepts the object: every required field
\* present with its type, tags absent or a map; other keys are ignored
deserialize_ok(e, schema) ==
    /\ \A k \in DOMAIN schema : k \in DOMAIN e /\ e[k].json = schema[k]
    /\ "tags" \in DOMAIN e => e["tags"].json = "object"

\* #[serde(default)] pub tags: Tags
tags_or_default(e) == IF "tags" \in DOMAIN e THEN e["tags"].obj ELSE <<>>

\* pub tags: Option<Tags> (structs.rs, parser.rs)
tags_option(e) == IF "tags" \in DOMAIN e THEN Some(e["tags"].obj) ELSE None

\* serde_json::from_value::<RawNode> followed by From<RawNode> for Node
from_value_RawNode(e) ==
    IF deserialize_ok(e, RawNode_schema)
    THEN Ok([id |-> e["id"].num,
             pos |-> [lat |-> e["lat"].num, lon |-> e["lon"].num],
             timestamp |-> e["timestamp"].str, version |-> e["version"].num,
             changeset |-> e["changeset"].num, user |-> e["user"].str,
             tags |-> tags_or_default(e)])
    ELSE Err("serde_json::Error")

\* serde_json::from_value::<Way> (types.rs)
from_value_Way(e) ==
    IF deserialize_ok(e, Way_schema)
    THEN Ok([id |-> e["id"].num, timestamp |-> e["timestamp"].str,
             version |-> e["version"].num, changeset |-> e["changeset"].num,
             user |-> e["user"].str, nodes |-> e["nodes"].arr,
             tags |-> tags_or_default(e)])
    ELSE Err("serde_json::Error")

\* serde_json::from_value::<Node> (parser.rs): lat and lon are fields
from_value_Node_parser(e) ==
    IF deserialize_ok(e, RawNode_schema)
    THEN Ok([id |-> e["id"].num, lat |-> e["lat"].num, lon |-> e["lon"].num,
             timestamp |-> e["timestamp"].str, version |-> e["version"].num,
             changeset |-> e["changeset"].num, user |-> e["user"].str,
             tags |-> tags_option(e)])
    ELSE Err("serde_json::Error")

\* serde_json::from_value::<Way> (parser.rs)
from_value_Way_parser(e) ==
    IF deserialize_ok(e, Way_schema)
    THEN Ok([id |-> e["id"].num, timestamp |-> e["timestamp"].str,
             version |-> e["version"].num, changeset |-> e["changeset"].num,
             user |-> e["user"].str, nodes |-> e["nodes"].arr,
             tags |-> tags_option(e)])
    ELSE Err("serde_json::Error")

\* From<RawBounds> for Bounds
Bounds_from(value) ==
    [min |-> [lat |-> value.minlat, lon |-> value.minlon],
     max |-> [lat |-> value.maxlat, lon |-> value.maxlon]]

\* The accumulators of the loop: Ok(<<nodes, ways>>) or the error that
\* the `?` operator returns from the function
Acc(nodes, ways) == Ok([nodes |-> nodes, ways |-> ways])

\* The match of try_from with an unknown type skipped, not refused
try_from_match_lenient(t, e, nodes, ways) ==
    CASE t = "node" ->
           LET node == from_value_RawNode(e)
           IN  IF node.tag = "Err" THEN Acc(nodes, ways)
               ELSE Acc(HashMap_insert(nodes, node.val.id, node.val), ways)
      [] t = "way" ->
           LET way == from_value_Way(e)
           IN  IF way.tag = "Err" THEN Acc(nodes, ways)
               ELSE Acc(nodes, HashMap_insert(ways, way.val.id, way.val))
      [] OTHER -> Acc(nodes, ways)

\* The match of try_from with the relation arm missing
try_from_match_no_relation(t, e, nodes, ways) ==
    CASE t = "node" ->
           LET node == from_value_RawNode(e)
           IN  IF node.tag = "Err" THEN node
               ELSE Acc(HashMap_insert(nodes, node.val.id, node.val), ways)
      [] t = "way" ->
           LET way == from_value_Way(e)
           IN  IF way.tag = "Err" THEN way
               ELSE Acc(nodes, HashMap_insert(ways, way.val.id, way.val))
      [] OTHER -> Err("invalid element type")

\* The match of try_from with entries already present kept
try_from_match_keep_first(t, e, nodes, ways) ==
    CASE t = "node" ->
           LET node == from_value_RawNode(e)
           IN  IF node.tag = "Err" THEN node
               ELSE Acc(HashMap_insert_keep(nodes, node.val.id, node.val), ways)
      [] t = "way" ->
           LET way == from_value_Way(e)
           IN  IF way.tag = "Err" THEN way
               ELSE Acc(nodes, HashMap_insert_keep(ways, way.val.id, way.val))
      [] t = "relation" -> Acc(nodes, ways)
      [] OTHER -> Err("invalid element type")

\* `match t { ... }` of try_from (types.rs)
try_from_match(t, e, nodes, ways) ==
    CASE t = "node" ->
           LET node == from_value_RawNode(e)
           IN  IF node.tag = "Err" THEN node
               ELSE Acc(HashMap_insert(nodes, node.val.id, node.val), ways)
      [] t = "way" ->
           LET way == from_value_Way(e)
           IN  IF way.tag = "Err" THEN way
               ELSE Acc(nodes, HashMap_insert(ways, way.val.id, way.val))
      [] t = "relation" -> Acc(nodes, ways)
      [] OTHER -> Err("invalid element type")

\* `match t { ... }` of parse (parser.rs)
parse_match(t, e, nodes, ways) ==
    CASE t = "node" ->
           LET node == from_value_Node_parser(e)
           IN  IF node.tag = "Err" THEN node
               ELSE Acc(HashMap_insert(nodes, node.val.id, node.val), ways)
      [] t = "way" ->
           LET way == from_value_Way_parser(e)
           IN  IF way.tag = "Err" THEN way
               ELSE Acc(nodes, HashMap_insert(ways, way.val.id, way.val))
      [] t = "relation" -> Acc(nodes, ways)
      [] OTHER -> Err("invalid type")

\* The match of the function `fun`: try_from (types.rs) or parse (parser.rs)
element_match(fun, t, e, nodes, ways) ==
    IF fun = "parse" THEN parse_match(t, e, nodes, ways)
    ELSE try_from_match(t, e, nodes, ways)

\* `for e in raw.elements { let t = e["type"].as_str().ok_or(..)?; match .. }`
RECURSIVE for_e_in_elements(_, _, _, _, _)
for_e_in_elements(fun, elements, i, nodes, ways) ==
    IF i > Len(elements) THEN Acc(nodes, ways)
    ELSE LET e == elements[i]
             t == Value_as_str(Value_index(e, "type"))
         IN  IF ~t.some THEN Err("\"type\" is not a string")
             ELSE LET r == element_match(fun, t.v, e, nodes, ways)
                  IN  IF r.tag = "Err" THEN r
                      ELSE for_e_in_elements(fun, elements, i + 1,
                                             r.val.nodes, r.val.ways)

\* impl TryFrom<RawOsmData> for OsmData (types.rs)
try_from(raw) ==
    LET r == for_e_in_elements("try_from", raw.elements, 1, <<>>, <<>>)
    IN  IF r.tag = "Err" THEN r
        ELSE Ok([version |-> raw.version, generator |-> raw.generator,
                 copyright |-> raw.copyright, attribution |-> raw.attribution,
                 license |-> raw.license, bounds |-> Bounds_from(raw.bounds),
                 nodes |-> r.val.nodes, ways |-> r.val.ways])

\* parse (parser.rs), from the decoded envelope on
parse(raw) ==
    LET r == for_e_in_elements("parse", raw.elements, 1, <<>>, <<>>)
    IN  IF r.tag = "Err" THEN r
        ELSE Ok([version |-> raw.version, generator |-> raw.generator,
                 copyright |-> raw.copyright, attribution |-> raw.attribution,
                 license |-> raw.license, bounds |-> raw.bounds,
                 nodes |-> r.val.nodes, ways |-> r.val.ways])

(***************************************************************************)
(* The ingestion specification: an envelope whose elements array holds up  *)
(* to MaxElements elements, well formed or not.                            *)
(***************************************************************************)
NodeElement(id, lat, lon, user) ==
    [type |-> J_str("node"), id |-> J_num(id), lat |-> J_num(lat),
     lon |-> J_num(lon), timestamp |-> J_str("2024-01-01T00:00:00Z"),
     version |-> J_num(1), changeset |-> J_num(1), user |-> J_str(user)]

WayElement(id, nodes, user) ==
    [type |-> J_str("way"), id |-> J_num(id),
     timestamp |-> J_str("2024-01-01T00:00:00Z"), version |-> J_num(1),
     changeset |-> J_num(1), user |-> J_str(user), nodes |-> J_arr(nodes)]

Without(e, key) == [k \in DOMAIN e \ {key} |-> e[k]]

With(e, key, j) == [k \in DOMAIN e \cup {key} |-> IF k = key THEN j ELSE e[k]]

GoodNodes ==
    {NodeElement(id, 60, 80, "alice") : id \in Ids}
    \cup {With(NodeElement(id, -40, -20, "bob"), "tags",
               J_obj([highway |-> "2"])) : id \in Ids}

GoodWays ==
    {WayElement(id, <<1, 2>>, "alice") : id \in Ids}
    \cup {With(WayElement(id, <<2>>, "bob"), "tags",
               J_obj([name |-> "3"])) : id \in Ids}

\* A relation is never decoded: one with members, one with nothing but its
\* type, whose other fields would fit no schema
Relations ==
    {[type |-> J_str("relation"), id |-> J_num(1),
      members |-> J_arr(<<1, 2>>)],
     [type |-> J_str("relation"), id |-> J_str("x"), lat |-> J_null]}

BadElements ==
    {Without(NodeElement(1, 60, 80, "alice"), "type"),
     With(NodeElement(1, 60, 80, "alice"), "type", J_num(1)),
     With(NodeElement(1, 60, 80, "alice"), "type", J_str("intersection")),
     Without(NodeElement(2, 60, 80, "alice"), "lat"),
     With(NodeElement(2, 60, 80, "alice"), "lat", J_str("60")),
     Without(WayElement(2, <<1, 2>>, "alice"), "nodes")}

Elements == GoodNodes \cup GoodWays \cup Relations \cup BadElements

SeqsUpTo(S, n) == UNION {[1..k -> S] : k \in 0..n}

RawOsmData(elements) ==
    [version |-> "0.6", generator |-> "g", copyright |-> "c",
     attribution |-> "a", license |-> "l",
     bounds |-> [minlat |-> -40, maxlat |-> 60, minlon |-> -20, maxlon |-> 80],
     elements |-> elements]

InitIngest ==
    /\ self \in {RawOsmData(es) : es \in SeqsUpTo(Elements, MaxElements)}
    /\ orig = self
    /\ pre = self
    /\ call = NoCall
    /\ ret = NoRet
    /\ log = <<>>

CallTryFrom == Do("OsmData::try_from", self, self, try_from(self))

CallParse == Do("parse", self, self, parse(self))

NextIngest == CallTryFrom \/ CallParse

SpecIngest == InitIngest /\ [][NextIngest]_vars

IngestOps == {"OsmData::try_from", "parse"}

Ingested == call.op \in IngestOps

InputElements == call.arg.elements

IdsOf(S) == {InputElements[i]["id"].num :
                 i \in {j \in 1..Len(InputElements) : InputElements[j] \in S}}

\* C3: when every element is a well-formed node, a well-formed way or an
\* element of type "relation", ingestion succeeds, the node mapping's keys
\* are exactly the node elements' ids, the way mapping's keys exactly the
\* way elements' ids, and relations add nothing and raise no error.
C3_IngestKeys ==
    (Ingested /\ \A i \in 1..Len(InputElements) :
                     InputElements[i] \in GoodNodes \cup GoodWays \cup Relations)
    => /\ ret.tag = "Ok"
       /\ DOMAIN ret.val.nodes = IdsOf(GoodNodes)
       /\ DOMAIN ret.val.ways = IdsOf(GoodWays)

C3_Witness ==
    /\ call.op = "OsmData::try_from"
    /\ Len(InputElements) = 3
    /\ InputElements[1] \in GoodNodes
    /\ InputElements[2] \in Relations
    /\ InputElements[3] \in GoodWays
    /\ ret.tag = "Ok"
    /\ Cardinality(DOMAIN ret.val.nodes) = 1
    /\ Cardinality(DOMAIN ret.val.ways) = 1

\* C4: when any element, at any position, fails to decode, ingestion
\* returns an error and no OsmData, whatever valid elements precede or
\* follow it.
C4_AnyBadElementFails ==
    (Ingested /\ \E i \in 1..Len(InputElements) : InputElements[i] \in BadElements)
    => /\ ret.tag = "Err"
       /\ "val" \notin DOMAIN ret

C4_Witness ==
    /\ call.op = "OsmData::try_from"
    /\ Len(InputElements) = 3
    /\ InputElements[1] \in GoodNodes
    /\ InputElements[2] \in BadElements
    /\ InputElements[3] \in GoodWays
    /\ ret.tag = "Err"

\* What the last call decodes a well-formed element to
DecodedNode(e) ==
    IF call.op = "parse" THEN from_value_Node_parser(e).val
    ELSE from_value_RawNode(e).val

DecodedWay(e) ==
    IF call.op = "parse" THEN from_value_Way_parser(e).val
    ELSE from_value_Way(e).val

\* Element i is the last element of kind S with its id
LastOf(S, i) ==
    /\ InputElements[i] \in S
    /\ \A j \in (i + 1)..Len(InputElements) :
           InputElements[j] \in S => InputElements[j]["id"].num # InputElements[i]["id"].num

\* C8: with several node elements (or way elements) of one id, ingestion
\* succeeds and the mapping holds for that id the content of the last such
\* element in array order; nodes and ways are keyed apart, so a node and a
\* way of one id do not overwrite each other.
C8_LastWriteWins ==
    (Ingested /\ \A i \in 1..Len(InputElements) :
                     InputElements[i] \in GoodNodes \cup GoodWays \cup Relations)
    => /\ ret.tag = "Ok"
       /\ \A i \in 1..Len(InputElements) :
              /\ LastOf(GoodNodes, i) =>
                     ret.val.nodes[InputElements[i]["id"].num]
                         = DecodedNode(InputElements[i])
              /\ LastOf(GoodWays, i) =>
                     ret.val.ways[InputElements[i]["id"].num]
                         = DecodedWay(InputElements[i])

C8_Witness ==
    /\ call.op = "OsmData::try_from"
    /\ Len(InputElements) = 3
    /\ InputElements[1] \in GoodNodes
    /\ InputElements[2] \in GoodWays
    /\ InputElements[3] \in GoodNodes
    /\ InputElements[1] # InputElements[3]
    /\ InputElements[1]["id"] = InputElements[3]["id"]
    /\ InputElements[2]["id"] = InputElements[3]["id"]
    /\ ret.tag = "Ok"
    /\ DOMAIN ret.val.nodes = {InputElements[3]["id"].num}
    /\ ret.val.nodes[InputElements[3]["id"].num].user = InputElements[3]["user"].str
    /\ ret.val.ways[InputElements[2]["id"].num].user = InputElements[2]["user"].str

(***************************************************************************)
(* Single-precision floats (lib.rs: type Float = f32 unless the f64        *)
(* feature is set).  A finite f32 is [s, m, e]: sign s, 24-bit significand *)
(* m (0 for zero, else 2^23 <= m < 2^24) and exponent e of its last bit,   *)
(* the number (-1)^s * m * 2^e.  Multiplication and division round to      *)
(* nearest, ties to even, as IEEE 754 does.  Exponents stay far inside     *)
(* f32's range for the values and the call depth the model uses, so        *)
(* overflow and subnormals do not arise.                                   *)
(* tan, ln, exp and atan have no counterpart in the integers: the result   *)
(* of a function built on them is the term [fn, of] naming the function    *)
(* and its argument.                                                       *)
(***************************************************************************)
F32(s, m, e) == [s |-> s, m |-> m, e |-> e]

F32_ZERO == F32(0, 0, 0)

IsF32(x) == "m" \in DOMAIN x

Term(fn, x) == [fn |-> fn, of |-> x]

\* Shift m * 2^e to a 24-bit significand (m > 0 exactly representable)
RECURSIVE F32_normal(_, _, _)
F32_normal(s, m, e) ==
    IF m = 0 THEN F32(s, 0, 0)
    ELSE IF m < 2^23 THEN F32_normal(s, 2 * m, e - 1)
    ELSE IF m >= 2^24 /\ m % 2 = 0 THEN F32_normal(s, m \div 2, e + 1)
    ELSE F32(s, m, e)

\* An integer of at most 24 bits as a float: `6378137.`, `2.`
F32_from_int(n) == IF n < 0 THEN F32_normal(1, -n, 0) ELSE F32_normal(0, n, 0)

\* Round q * 2^e (2^24 <= q < 2^26, sticky: a non-zero remainder below q)
\* to 24 bits, to nearest, ties to even
F32_round(s, q, e, sticky) ==
    LET sh == IF q >= 2^25 THEN 2 ELSE 1
        keep == q \div 2^sh
        rem == q % 2^sh
        half == 2^(sh - 1)
        up == \/ rem > half
              \/ rem = half /\ (sticky \/ keep % 2 = 1)
        m == IF up THEN keep + 1 ELSE keep
    IN  IF m = 2^24 THEN F32(s, 2^23, e + sh + 1) ELSE F32(s, m, e + sh)

\* a * b: the 48-bit product of the significands from 12-bit halves
F32_mul(a, b) ==
    IF a.m = 0 \/ b.m = 0 THEN F32((a.s + b.s) % 2, 0, 0)
    ELSE LET a1 == a.m \div 2^12
             a0 == a.m % 2^12
             b1 == b.m \div 2^12
             b0 == b.m % 2^12
             mid == a1 * b0 + a0 * b1
             low == a0 * b0 + (mid % 2^12) * 2^12
             lo == low % 2^24
             hi == a1 * b1 + mid \div 2^12 + low \div 2^24
             q == hi * 4 + lo \div 2^22
             sticky == lo % 2^22 # 0
         IN  F32_round((a.s + b.s) % 2, q, a.e + b.e + 22, sticky)

\* n more bits of the quotient of r by d, after the bits in q
RECURSIVE long_div(_, _, _, _)
long_div(q, r, d, n) ==
    IF n = 0 THEN [q |-> q, r |-> r]
    ELSE IF 2 * r >= d THEN long_div(2 * q + 1, 2 * r - d, d, n - 1)
    ELSE long_div(2 * q, 2 * r, d, n - 1)

\* a / b for b # 0: the quotient of the significands to 25 binary places
\* (2^24 < q < 2^26, as 1/2 < a.m / b.m < 2) and the sticky remainder
F32_div(a, b) ==
    IF a.m = 0 THEN F32((a.s + b.s) % 2, 0, 0)
    ELSE LET d == long_div(a.m \div b.m, a.m % b.m, b.m, 25)
         IN  F32_round((a.s + b.s) % 2, d.q, a.e - b.e - 25, d.r # 0)

\* -x
F32_neg(x) ==
    IF IsF32(x) THEN F32(1 - x.s, x.m, x.e)
    ELSE IF x.fn = "neg" THEN x.of
    ELSE Term("neg", x)

(***************************************************************************)
(* The projection transform (convert.rs) and project_to (structs.rs).      *)
(***************************************************************************)
MaxCalls == 2

\* const R: Float = 6378137.
R == F32_from_int(6378137)

\* std::f32::consts::PI, FRAC_PI_2
F32_PI == F32(0, 13176795, -22)
FRAC_PI_2 == F32(0, 13176795, -23)

\* f32::to_radians: self * (consts::PI / 180.0)
to_radians(x) == F32_mul(x, F32_div(F32_PI, F32_from_int(180)))

\* f32::to_degrees: self * 57.2957795130823208767981548141051703_f32
to_degrees(x) == F32_mul(x, F32(0, 15019745, -18))

\* (lat.to_radians() / 2. + FRAC_PI_4).tan().log(E) * R
lat2y(lat) == Term("lat2y", lat)

\* R * lon.to_radians()
lon2x(lon) == IF IsF32(lon) THEN F32_mul(R, to_radians(lon)) ELSE Term("lon2x", lon)

\* (2. * (y / R).exp().atan() - FRAC_PI_2).to_degrees()
y2lat(y) == Term("y2lat", y)

\* x2lon without the conversion back to degrees
x2lon_radians(x) == IF IsF32(x) THEN F32_div(x, R) ELSE Term("x2lon", x)

\* (x / R).to_degrees()
x2lon(x) == IF IsF32(x) THEN to_degrees(F32_div(x, R)) ELSE Term("x2lon", x)

WebMercator == [kind |-> "WebMercator"]
Custom(f) == [kind |-> "Custom", f |-> f]

\* The functions a caller passes in Projection::Custom: |c| c.lat = -c.lat
\* (the crate's test), an exchange of the two fields, and a quarter turn
CustomFns == {"neg_lat", "swap", "turn"}

\* f(self) for the caller's function f
call_fn(f, c) ==
    CASE f = "neg_lat" -> [lat |-> F32_neg(c.lat), lon |-> c.lon]
      [] f = "swap" -> [lat |-> c.lon, lon |-> c.lat]
      [] f = "turn" -> [lat |-> c.lon, lon |-> F32_neg(c.lat)]

Projections == {WebMercator} \cup {Custom(f) : f \in CustomFns}

Coordinate_convert_to(c, p) ==
    IF p.kind = "WebMercator"
    THEN [lat |-> lat2y(c.lat), lon |-> lon2x(c.lon)]
    ELSE call_fn(p.f, c)

\* revert_from with the custom function left out
Coordinate_revert_from_builtin_only(c, p) ==
    IF p.kind = "WebMercator"
    THEN [lat |-> y2lat(c.lat), lon |-> x2lon(c.lon)]
    ELSE c

Coordinate_revert_from(c, p) ==
    IF p.kind = "WebMercator"
    THEN [lat |-> y2lat(c.lat), lon |-> x2lon(c.lon)]
    ELSE call_fn(p.f, c)

Node_convert_to(node, p) ==
    [node EXCEPT !.pos = Coordinate_convert_to(node.pos, p)]

Node_revert_from(node, p) ==
    [node EXCEPT !.pos = Coordinate_revert_from(node.pos, p)]

\* convert_to that re-projects the corners of the bounds as well
OsmData_convert_to_with_bounds(osm, p) ==
    [osm EXCEPT !.nodes = [k \in DOMAIN osm.nodes |->
                               Node_convert_to(osm.nodes[k], p)],
                !.bounds = [min |-> Coordinate_convert_to(osm.bounds.min, p),
                            max |-> Coordinate_convert_to(osm.bounds.max, p)]]

\* for node in self.nodes.values_mut() { node.convert_to(p); }
OsmData_convert_to(osm, p) ==
    [osm EXCEPT !.nodes = [k \in DOMAIN osm.nodes |->
                               Node_convert_to(osm.nodes[k], p)]]

OsmData_revert_from(osm, p) ==
    [osm EXCEPT !.nodes = [k \in DOMAIN osm.nodes |->
                               Node_revert_from(osm.nodes[k], p)]]

\* Coordinate::project_to(EPSG3857) (structs.rs):
\* let v = self.lat; self.lat = self.lon / FRAC_PI_2; self.lon = -v;
Coordinate_project_to(c) ==
    [lat |-> IF IsF32(c.lon) THEN F32_div(c.lon, FRAC_PI_2)
             ELSE Term("div_frac_pi_2", c.lon),
     lon |-> F32_neg(c.lat)]

Node_project_to(node) == [node EXCEPT !.pos = Coordinate_project_to(node.pos)]

OsmData_project_to(osm) ==
    [osm EXCEPT !.nodes = [k \in DOMAIN osm.nodes |->
                               Node_project_to(osm.nodes[k])]]

(***************************************************************************)
(* The projection specification: a Coordinate, a Node or an OsmData, and   *)
(* up to MaxCalls calls of convert_to, revert_from or project_to on it.    *)
(***************************************************************************)
\* The f32 nearest to n / 10: what a decimal literal such as 41.3 denotes
Tenths(n) == F32_div(F32_from_int(n), F32_from_int(10))

ConvertCoords ==
    {Coordinate_new(Tenths(500), Tenths(100)),
     Coordinate_new(Tenths(-413), Tenths(-1798))}

ConvertNode(id, c) ==
    [id |-> id, pos |-> c, timestamp |-> "2024-01-01T00:00:00Z", version |-> 3,
     changeset |-> 7, user |-> "alice", tags |-> [highway |-> "2"]]

ConvertNodes == {ConvertNode(1, c) : c \in ConvertCoords}

ConvertWays ==
    [i \in {5} |-> [id |-> 5, timestamp |-> "2024-01-01T00:00:00Z",
                    version |-> 1, changeset |-> 7, user |-> "bob",
                    nodes |-> <<1, 2>>, tags |-> [name |-> "3"]]]

ConvertBounds ==
    Bounds_new(Coordinate_new(Tenths(-413), Tenths(-1798)),
               Coordinate_new(Tenths(500), Tenths(100)))

ConvertOsm ==
    {OsmData_new(ConvertBounds, nodes, ConvertWays) :
         nodes \in {[k \in DOMAIN cs |-> ConvertNode(k, cs[k])] :
                       cs \in UNION {[S -> ConvertCoords] : S \in SUBSET {1, 2}}}}

IsCoordinate(x) == "lat" \in DOMAIN x
IsNode(x) == "pos" \in DOMAIN x
IsOsmData(x) == "nodes" \in DOMAIN x

InitConvert ==
    /\ self \in ConvertCoords \cup ConvertNodes \cup ConvertOsm
    /\ orig = self
    /\ pre = self
    /\ call = NoCall
    /\ ret = NoRet
    /\ log = <<>>

DoLogged(op, p, after) ==
    /\ Len(log) < MaxCalls
    /\ pre' = self
    /\ call' = [op |-> op, arg |-> p]
    /\ self' = after
    /\ ret' = NoRet
    /\ log' = Append(log, [op |-> op, arg |-> p])
    /\ UNCHANGED orig

CallConvertTo(p) ==
    \/ IsCoordinate(self) /\ DoLogged("convert_to", p, Coordinate_convert_to(self, p))
    \/ IsNode(self) /\ DoLogged("convert_to", p, Node_convert_to(self, p))
    \/ IsOsmData(self) /\ DoLogged("convert_to", p, OsmData_convert_to(self, p))

CallRevertFrom(p) ==
    \/ IsCoordinate(self) /\ DoLogged("revert_from", p, Coordinate_revert_from(self, p))
    \/ IsNode(self) /\ DoLogged("revert_from", p, Node_revert_from(self, p))
    \/ IsOsmData(self) /\ DoLogged("revert_from", p, OsmData_revert_from(self, p))

CallProjectTo ==
    \/ IsCoordinate(self) /\ DoLogged("project_to", "EPSG3857", Coordinate_project_to(self))
    \/ IsNode(self) /\ DoLogged("project_to", "EPSG3857", Node_project_to(self))
    \/ IsOsmData(self) /\ DoLogged("project_to", "EPSG3857", OsmData_project_to(self))

NextConvert ==
    \/ \E p \in Projections : CallConvertTo(p)
    \/ \E p \in Projections : CallRevertFrom(p)
    \/ CallProjectTo

SpecConvert == InitConvert /\ [][NextConvert]_vars

\* The caller's function applied once to every Coordinate the receiver holds
Applied(f, x) ==
    IF IsCoordinate(x) THEN call_fn(f, x)
    ELSE IF IsNode(x) THEN [x EXCEPT !.pos = call_fn(f, x.pos)]
    ELSE [x EXCEPT !.nodes = [k \in DOMAIN x.nodes |->
              [x.nodes[k] EXCEPT !.pos = call_fn(f, x.nodes[k].pos)]]]

IsCustomCall(c) ==
    c.op \in {"convert_to", "revert_from"} /\ c.arg.kind = "Custom"

\* C7: with Projection::Custom(f), convert_to and revert_from each apply f
\* exactly once to the Coordinate (the position of a Node, every node's
\* position of an OsmData) and nothing else; convert_to followed by
\* revert_from with the same f yields f(f(c)), which is c for an f that is
\* its own inverse and differs from c for the quarter turn of a position
\* that is not the origin.
C7_CustomAppliedOnce ==
    /\ IsCustomCall(call) => self = Applied(call.arg.f, pre)
    /\ (/\ Len(log) = 2
        /\ IsCustomCall(log[1]) /\ log[1].op = "convert_to"
        /\ IsCustomCall(log[2]) /\ log[2].op = "revert_from"
        /\ log[1].arg = log[2].arg)
       => /\ self = Applied(log[1].arg.f, Applied(log[1].arg.f, orig))
          /\ log[1].arg.f \in {"neg_lat", "swap"} => self = orig
          /\ (log[1].arg.f = "turn" /\ IsCoordinate(orig)) => self # orig

C7_Witness ==
    /\ Len(log) = 2
    /\ log[1] = [op |-> "convert_to", arg |-> Custom("turn")]
    /\ log[2] = [op |-> "revert_from", arg |-> Custom("turn")]
    /\ IsOsmData(self)
    /\ DOMAIN self.nodes = {1, 2}
    /\ self # orig
    /\ \A k \in DOMAIN self.nodes :
           self.nodes[k].pos = [lat |-> F32_neg(orig.nodes[k].pos.lat),
                                lon |-> F32_neg(orig.nodes[k].pos.lon)]

\* C9: convert_to and revert_from on an OsmData, for any projection and
\* after any sequence of calls, change only the pos of nodes: the node ids,
\* every other field of every node, the way mapping, the five metadata
\* strings and the bounds field are as they were.
C9_OnlyPositionsChange ==
    IsOsmData(self) =>
        /\ DOMAIN self.nodes = DOMAIN orig.nodes
        /\ \A k \in DOMAIN self.nodes :
               [self.nodes[k] EXCEPT !.pos = Coordinate_ZERO]
                   = [orig.nodes[k] EXCEPT !.pos = Coordinate_ZERO]
        /\ self.ways = orig.ways
        /\ self.version = orig.version
        /\ self.generator = orig.generator
        /\ self.copyright = orig.copyright
        /\ self.attribution = orig.attribution
        /\ self.license = orig.license
        /\ self.bounds = orig.bounds

C9_Witness ==
    /\ IsOsmData(self)
    /\ Len(log) = 2
    /\ log[1] = [op |-> "convert_to", arg |-> WebMercator]
    /\ log[2].op = "revert_from"
    /\ DOMAIN self.nodes = {1, 2}
    /\ \A k \in DOMAIN self.nodes : self.nodes[k].pos # orig.nodes[k].pos
    /\ self.bounds = orig.bounds

(***************************************************************************)
(* The round-trip specification: convert_to(WebMercator) and then          *)
(* revert_from(WebMercator) on a Coordinate, for every longitude that is a *)
(* multiple of a tenth of a degree in [-180, 180].                         *)
(***************************************************************************)
LonTenths == -1800..1800
LatTenths == {-899, -413, 0, 500, 899}

InitMercator ==
    /\ self \in {Coordinate_new(Tenths(lat), Tenths(lon)) :
                     lat \in LatTenths, lon \in LonTenths}
    /\ orig = self
    /\ pre = self
    /\ call = NoCall
    /\ ret = NoRet
    /\ log = <<>>

MercatorConvert == Len(log) = 0 /\ CallConvertTo(WebMercator)

MercatorRevert == Len(log) = 1 /\ CallRevertFrom(WebMercator)

NextMercator == MercatorConvert \/ MercatorRevert

SpecMercator == InitMercator /\ [][NextMercator]_vars

\* The signed significand of x at the exponent e0 <= x.e
Aligned(x, e0) ==
    IF x.m = 0 THEN 0 ELSE (IF x.s = 1 THEN -1 ELSE 1) * x.m * 2^(x.e - e0)

Abs(n) == IF n < 0 THEN -n ELSE n

\* |a - b| <= 1 / den, decided exactly for floats whose exponents differ by
\* at most 6 and whose last bit is no finer than 2^-30; no other float is
\* found close
F32_within(a, b, den) ==
    LET e0 == IF a.m = 0 THEN b.e ELSE IF b.m = 0 THEN a.e
              ELSE IF a.e < b.e THEN a.e ELSE b.e
        gap == IF a.m = 0 \/ b.m = 0 THEN 0 ELSE Abs(a.e - b.e)
    IN  /\ gap <= 6
        /\ LET d == Abs(Aligned(a, e0) - Aligned(b, e0))
           IN  \/ d = 0
               \/ /\ e0 < 0
                  /\ e0 >= -30
                  /\ d <= 20000
                  /\ d * den <= 2^(-e0)

RoundTripped ==
    /\ Len(log) = 2
    /\ log[1] = [op |-> "convert_to", arg |-> WebMercator]
    /\ log[2] = [op |-> "revert_from", arg |-> WebMercator]

====
